---- MODULE Spec2Model ----
(***************************************************************************)
(* Call-lifecycle orchestration of main_fixed.py: the per-call transcript  *)
(* files of recordings_dir, the voice webhook, the recording-completion    *)
(* webhook, the recording-status webhook and the VoxIntel dispatcher with  *)
(* its retries.                                                            *)
(*                                                                         *)
(* The application runs under one uvicorn event loop (main_fixed.py:553).  *)
(* voice_webhook awaits only request.form(), before it touches the file,   *)
(* so its load-modify-save is one atomic step.  send_call_to_voxintel      *)
(* yields to the loop only in asyncio.sleep(2) after a failed attempt, so  *)
(* handle_recording_completion, which awaits it between its load and its   *)
(* save, is suspended there and other handlers run meanwhile.  The task    *)
(* voice_webhook creates runs after the handler has returned.              *)
(* get_call_recording is a plain def, which the server runs in a worker    *)
(* thread: it can read a file while the loop thread is writing it.         *)
(*                                                                         *)
(* Strings stand for Python strings, "None" for None and for a missing     *)
(* key, token sequences for formatted messages, and a timestamp is the     *)
(* value of the clock `now`, which ticks once per handled event.           *)
(***************************************************************************)
EXTENDS Integers, Sequences, FiniteSets, TLC

\* Number of webhook events the provider delivers in one behaviour.
MaxEvents == 3

VOXINTEL_USER_ID == 3
MaxAttempts == 3

None == "None"

\* The transcript files: one per CallSid, "unknown" for events without one.
Keys == {"CA1", "unknown"}

NoFile == [exists |-> FALSE]

\* A file that open(transcript_file, 'w') has truncated and json.dump has not
\* completed: it exists and json.load raises on it.
Truncated == [exists |-> TRUE]

EmptyDict == [f \in {} |-> ""]

GetOr(d, k, default) == IF k \in DOMAIN d THEN d[k] ELSE default

\* dict.update
Update(a, b) ==
  [f \in (DOMAIN a) \cup (DOMAIN b) |-> IF f \in DOMAIN b THEN b[f] ELSE a[f]]

Last(s) == s[Len(s)]

----------------------------------------------------------------------------
(* Inputs *)

EngineReply == <<"What is the best number to reach you?">>

\* sarah_ai.get_response raises ...
Raises == [raises |-> TRUE]

\* ... or returns a dict without the "message" key ...
NoMessage ==
  [raises |-> FALSE, lead_info |-> EmptyDict, should_end_call |-> FALSE,
   next_action |-> "continue", confidence |-> 90]

\* ... or returns a response.
SarahResponse(delta, should_end_call, next_action) ==
  [raises |-> FALSE, message |-> EngineReply, lead_info |-> delta,
   should_end_call |-> should_end_call, next_action |-> next_action,
   confidence |-> 90]

Flags == BOOLEAN \X {"continue", "end_call"}

EngineOutcomes(deltas) ==
  {SarahResponse(d, f[1], f[2]) : d \in deltas, f \in Flags} \cup {Raises}

NamePhone == ("name" :> "Mary") @@ ("phone" :> "555-123-4567")
Bakery == ("business_type" :> "bakery")
Mugs == ("product_category" :> "mugs")
NoName == ("name" :> "")

\* What the provider, the dialogue engine, the speech synthesis and the
\* VoxIntel endpoint can do in the behaviours of the main specifications.
Env ==
  [ CallSids |-> {"CA1"},
    From |-> {"+15550001"},
    To |-> {"+15559999"},
    CallStatus |-> {"in-progress"},
    SpeechResult |-> {None, "I need mugs"},
    VoiceRecordingUrl |-> {None},
    RecordingUrl |-> {"https://rec/RE1"},
    RecordingDuration |-> {"42"},
    RecordingSid |-> {"RE1"},
    RecordingStatus |-> {"completed", "failed"},
    ErrorCode |-> {None, "31000"},
    sarah_response |-> EngineOutcomes({EmptyDict, NamePhone, Bakery}),
    audio_filename |-> {FALSE},
    fault |-> {"none"},
    outcome |-> {"200", "500"} ]

----------------------------------------------------------------------------
VARIABLES
  recordings_dir,   \* key -> content of <key>_transcript.json, or NoFile
  now,              \* clock; also the number of the next event
  procs,            \* event number -> invocation of send_call_to_voxintel
  request,          \* the event the last started handler was invoked for
  response,         \* what the last finished handler returned
  reads,            \* what the last get_call_recording returned
  main              \* the files and the last answer of attached_assets/main.py

vars == <<recordings_dir, now, procs, request, response, reads, main>>

\* The engine is not called.
NotCalled == [raises |-> FALSE, called |-> FALSE]

\* No form field of the event is recorded.
NoForm == [f \in {} |-> None]

\* calls are the calls of sarah_ai.get_response the handler made, with their
\* arguments; audio_filename tells whether the handler got an audio file.
Request(handler, CallSid, SpeechResult, sarah_response, fault, form, calls, audio_filename) ==
  [handler |-> handler, key |-> CallSid, SpeechResult |-> SpeechResult,
   sarah_response |-> sarah_response, fault |-> fault, form |-> form,
   calls |-> calls, audio_filename |-> audio_filename]

NoRequest == Request(None, None, None, NotCalled, "none", NoForm, <<>>, FALSE)

NoResponse == [handler |-> None, key |-> None, twiml |-> <<>>, json |-> None]

NoRead == [call_sid |-> None, body |-> [read |-> FALSE]]

\* attached_assets/main.py has written no file and given no answer.
NoMain == [recordings_dir |-> [k \in Keys |-> NoFile], response |-> NoResponse]

Init ==
  /\ recordings_dir = [k \in Keys |-> NoFile]
  /\ now = 1
  /\ procs = [i \in {} |-> 0]
  /\ request = NoRequest
  /\ response = NoResponse
  /\ reads = NoRead
  /\ main = NoMain

Exists(k) == recordings_dir[k] # NoFile

\* json.load(f) returns the record.
Loads(k) == Exists(k) /\ recordings_dir[k] # Truncated


NoTime == 0

----------------------------------------------------------------------------
(* send_call_to_voxintel *)

\* datetime.fromisoformat succeeds on what isoformat produced.
Parses(ts) == ts >= 1

Duration(conversation) ==
  IF Len(conversation) >= 2
  THEN IF Parses(conversation[1].timestamp) /\ Parses(Last(conversation).timestamp)
       THEN Last(conversation).timestamp - conversation[1].timestamp
       ELSE Len(conversation) * 30
  ELSE 0

PayloadStatus(call_data) ==
  IF call_data.call_completed THEN "completed" ELSE "missed"

BuildPayload(call_data) ==
  LET lead_info == call_data.final_lead_info
      conversation == call_data.conversation
      name == GetOr(lead_info, "name", "Unknown caller")
      business_type == GetOr(lead_info, "business_type", "business")
      product_interest == GetOr(lead_info, "product_category", "promotional items")
  IN [ userId |-> VOXINTEL_USER_ID,
       phoneNumber |-> call_data.from_number,
       contactName |-> name,
       duration |-> Duration(conversation),
       status |-> PayloadStatus(call_data),
       summary |-> <<name, business_type, product_interest>>,
       transcript |-> [i \in 1..Len(conversation) |->
                         <<conversation[i].speaker>> \o conversation[i].message],
       direction |-> "inbound",
       twilioCallSid |-> call_data.call_sid,
       recordingUrl |-> call_data.recording_url ]

NoPayload == [status |-> None]

\* A coroutine of send_call_to_voxintel that has not run yet.
NewSend(owner, key, call_data) ==
  [ owner |-> owner, key |-> key, call_data |-> call_data,
    payload |-> NoPayload, outcomes |-> <<>>, pc |-> "created",
    result |-> "pending" ]

\* Lines 21-64 run once, when the coroutine starts.
StartSend(p) ==
  IF p.pc = "created" THEN [p EXCEPT !.payload = BuildPayload(p.call_data)] ELSE p

\* Attempt without the return after a 200: the loop goes on to the next pass.
AttemptNoReturn(p, outcome) ==
  IF Len(p.outcomes) < MaxAttempts - 1
  THEN [StartSend(p) EXCEPT !.outcomes = Append(@, outcome), !.pc = "sleeping"]
  ELSE [StartSend(p) EXCEPT !.outcomes = Append(@, outcome), !.pc = "returned",
                           !.result = "False"]

\* Attempt that also sleeps after the last failed pass.
AttemptSleepAlways(p, outcome) ==
  LET q == [StartSend(p) EXCEPT !.outcomes = Append(@, outcome)]
  IN IF outcome = "200"
     THEN [q EXCEPT !.pc = "returned", !.result = "True"]
     ELSE IF Len(p.outcomes) < MaxAttempts
          THEN [q EXCEPT !.pc = "sleeping"]
          ELSE [q EXCEPT !.pc = "returned", !.result = "False"]

\* One pass of the retry loop (preceded, on the first pass, by the payload
\* being built): the blocking POST and what follows it, up to the return or
\* to the next asyncio.sleep.
Attempt(p, outcome) ==
  LET attempt == Len(p.outcomes)
      q == [StartSend(p) EXCEPT !.outcomes = Append(@, outcome)]
  IN IF outcome = "200"
     THEN [q EXCEPT !.pc = "returned", !.result = "True"]
     ELSE IF attempt < MaxAttempts - 1
          THEN [q EXCEPT !.pc = "sleeping"]
          ELSE [q EXCEPT !.pc = "returned", !.result = "False"]

----------------------------------------------------------------------------
(* voice_webhook *)

Greeting == <<"Hi! This is Sarah from TriCreativeGroup. What promotional items can I help you with today?">>

NewCallData(CallSid, From, To, t) ==
  [ call_sid |-> CallSid, from_number |-> From, to_number |-> To,
    start_time |-> t, conversation |-> <<>>, lead_info |-> EmptyDict,
    recording_url |-> None, status |-> "in_progress",
    call_completed |-> FALSE, sent_to_voxintel |-> FALSE,
    end_time |-> NoTime, final_lead_info |-> EmptyDict, last_updated |-> NoTime,
    recording_sid |-> None, duration_seconds |-> None,
    conversation_exchanges |-> -1 ]

\* FormGet without the default.
FormGetNoDefault(v) == v

\* form_data.get(name, "unknown")
FormGet(v) == IF v = None THEN "unknown" ELSE v

has_contact(lead_info) == "phone" \in DOMAIN lead_info /\ "name" \in DOMAIN lead_info

\* has_project that looks at business_type alone.
has_project_business_only(lead_info) == "business_type" \in DOMAIN lead_info

has_project(lead_info) ==
  "business_type" \in DOMAIN lead_info \/ "product_category" \in DOMAIN lead_info

Override(lead_info, should_end_call) ==
  has_contact(lead_info) /\ has_project(lead_info) /\ ~should_end_call

ClosingMessage(lead_info) ==
  << "Perfect! I have your information, ", GetOr(lead_info, "name", "there"),
     ". Our promotional products specialist will contact you within 24 hours with customized options for your ",
     GetOr(lead_info, "business_type", "organization"),
     ". Thank you for choosing TriCreativeGroup!" >>

MergeLeadInfo(lead_info, delta) == Update(lead_info, delta)

\* EndsCall with "and" in place of "or".
EndsCallBoth(should_end_call, next_action) ==
  should_end_call /\ next_action = "end_call"

\* EndsCall that looks at should_end_call alone.
EndsCallFlagOnly(should_end_call, next_action) == should_end_call

EndsCall(should_end_call, next_action) == should_end_call \/ next_action = "end_call"

\* StatusAfter that writes the status on every step.
StatusAfterReset(status, ends) == IF ends THEN "completed" ELSE "in_progress"

\* Lines 353-356: status is assigned only when the call ends.
StatusAfter(status, ends) == IF ends THEN "completed" ELSE status

\* NotSent without the guard: every completion dispatches.
NotSentAlways(call_data) == TRUE

\* if not call_data.get("sent_to_voxintel", False)
NotSent(call_data) == ~call_data.sent_to_voxintel

\* GreetingStep that starts the conversation over.
GreetingStepRestart(call_data, t) ==
  [ call_data |->
      [call_data EXCEPT !.conversation =
         <<[timestamp |-> t, speaker |-> "Sarah", message |-> Greeting,
            type |-> "greeting"]>>],
    message |-> Greeting, dispatch |-> FALSE ]

\* The greeting branch.
GreetingStep(call_data, t) ==
  [ call_data |->
      [call_data EXCEPT !.conversation = Append(@,
         [timestamp |-> t, speaker |-> "Sarah", message |-> Greeting,
          type |-> "greeting"])],
    message |-> Greeting, dispatch |-> FALSE ]

\* The speech branch, for an engine that returned sarah_response.
SpeechStep(call_data, SpeechResult, sarah_response, t) ==
  LET cd1 == [call_data EXCEPT !.conversation = Append(@,
                [timestamp |-> t, speaker |-> "Customer",
                 message |-> <<SpeechResult>>, type |-> "customer_input"])]
      lead_info == MergeLeadInfo(cd1.lead_info, sarah_response.lead_info)
      override == Override(lead_info, sarah_response.should_end_call)
      message == IF override THEN ClosingMessage(lead_info) ELSE sarah_response.message
      should_end_call == IF override THEN TRUE ELSE sarah_response.should_end_call
      next_action == IF override THEN "end_call" ELSE sarah_response.next_action
      cd2 == [cd1 EXCEPT !.lead_info = lead_info,
                         !.conversation = Append(@,
                [timestamp |-> t, speaker |-> "Sarah", message |-> message,
                 type |-> "ai_response",
                 lead_info_extracted |-> sarah_response.lead_info,
                 confidence |-> sarah_response.confidence,
                 next_action |-> next_action,
                 should_end_call |-> should_end_call])]
      ends == EndsCall(should_end_call, next_action)
      cd3 == IF ends
             THEN [cd2 EXCEPT !.call_completed = TRUE, !.end_time = t,
                              !.status = StatusAfter(cd2.status, ends),
                              !.final_lead_info = cd2.lead_info]
             ELSE [cd2 EXCEPT !.status = StatusAfter(cd2.status, ends)]
      dispatch == ends /\ NotSent(cd3)
      cd4 == IF dispatch THEN [cd3 EXCEPT !.sent_to_voxintel = TRUE] ELSE cd3
  IN [call_data |-> cd4, message |-> message, dispatch |-> dispatch]

\* BeforeSave that leaves final_lead_info as it is.
BeforeSaveNoFinal(call_data, t) == [call_data EXCEPT !.last_updated = t]

\* Lines 365-367, before the file is written.
BeforeSave(call_data, t) ==
  [call_data EXCEPT !.final_lead_info = call_data.lead_info, !.last_updated = t]

Say(text) == [verb |-> "Say", arg |-> text]
Play(text) == [verb |-> "Play", arg |-> <<"/audio/">> \o text]
Gather(timeout) == [verb |-> "Gather", arg |-> <<timeout>>]
Hangup == [verb |-> "Hangup", arg |-> <<>>]
Reprompt == <<"I didn't catch that. Could you repeat?">>
Goodbye == <<"Thanks for calling TriCreativeGroup. Have a great day!">>
EmergencyMessage == <<"Hello! Thanks for calling TriCreativeGroup. Please hold while we connect you.">>

\* Twiml that hangs up after every message.
TwimlAlwaysEnds(should_end_call, message, audio) ==
  IF audio THEN <<Play(message), Hangup>> ELSE <<Say(message), Hangup>>

\* Twiml that references an audio file whether or not there is one.
TwimlAlwaysPlays(should_end_call, message, audio) ==
  IF should_end_call
  THEN <<Play(message), Hangup>>
  ELSE <<Play(message), Gather("5"), Say(Reprompt), Gather("6"),
         Say(Goodbye), Hangup>>

Twiml(should_end_call, message, audio) ==
  IF should_end_call
  THEN IF audio THEN <<Play(message), Hangup>>
                ELSE <<Say(message), Hangup>>
  ELSE IF audio
       THEN <<Play(message), Gather("5"), Say(Reprompt), Gather("6"),
              Say(Goodbye), Hangup>>
       ELSE <<Say(message), Gather("5"), Say(Goodbye), Hangup>>

emergency_twiml == <<Say(EmergencyMessage), Hangup>>

VoiceResponse(CallSid, twiml) ==
  [handler |-> "voice_webhook", key |-> CallSid, twiml |-> twiml, json |-> None]

\* The handler lets the exception escape: the server answers 500.
ExceptionPropagates(CallSid) ==
  [handler |-> "voice_webhook", key |-> CallSid, twiml |-> <<>>,
   json |-> "Internal Server Error"]

\* except Exception (lines 448-457).
OnException(CallSid) == VoiceResponse(CallSid, emergency_twiml)

\* get_response raises, or sarah_response["message"] raises KeyError.
EngineFails(sarah_response) ==
  sarah_response.raises \/ "message" \notin DOMAIN sarah_response

\* What the file holds after lines 369-370: the record, or, when open raises,
\* what it held, or, when json.dump raises, a truncated document.
Written(file, call_data, fault) ==
  IF fault = "none" THEN call_data
  ELSE IF fault = "open" THEN file
  ELSE Truncated

\* EngineArgs with the conversation as it was before the customer's turn.
EngineArgsBeforeTurn(call_data, SpeechResult, CallSid, t) ==
  [ user_input |-> SpeechResult, call_sid |-> CallSid,
    lead_info |-> call_data.lead_info,
    conversation_history |-> call_data.conversation ]

\* The arguments of sarah_ai.get_response at lines 307-314: the record's
\* lead_info before the merge and its conversation, to which the customer's
\* turn has been appended.
EngineArgs(call_data, SpeechResult, CallSid, t) ==
  [ user_input |-> SpeechResult, call_sid |-> CallSid,
    lead_info |-> call_data.lead_info,
    conversation_history |-> Append(call_data.conversation,
       [timestamp |-> t, speaker |-> "Customer", message |-> <<SpeechResult>>,
        type |-> "customer_input"]) ]

\* sarah_response is what the engine does if it is called; audio_filename
\* tells whether speech synthesis yields a file; fault is what the save does
\* if it is reached.
voice_webhook(CallSidIn, From, To, CallStatus, SpeechResult, RecordingUrl, sarah_response, audio_filename, fault) ==
  LET CallSid == FormGet(CallSidIn)
      load_fails == Exists(CallSid) /\ ~Loads(CallSid)
      loaded == IF Exists(CallSid)
                THEN recordings_dir[CallSid]
                ELSE NewCallData(CallSid, FormGet(From), FormGet(To), now)
      with_url == IF RecordingUrl # None
                  THEN [loaded EXCEPT !.recording_url = RecordingUrl]
                  ELSE loaded
      speech == SpeechResult \notin {None, ""}
      called == speech /\ ~load_fails
      raised == called /\ EngineFails(sarah_response)
      step == IF speech
              THEN SpeechStep(with_url, SpeechResult, sarah_response, now)
              ELSE GreetingStep(with_url, now)
      call_data == BeforeSave(step.call_data, now)
  IN /\ now <= MaxEvents
     /\ now' = now + 1
     /\ request' = Request("voice_webhook", CallSid,
                            IF speech THEN SpeechResult ELSE None,
                            IF called THEN sarah_response ELSE NotCalled,
                            IF load_fails \/ raised THEN "none" ELSE fault,
                            [From |-> From, To |-> To, CallStatus |-> CallStatus],
                            IF called
                            THEN <<EngineArgs(with_url, SpeechResult, CallSid, now)>>
                            ELSE <<>>,
                            IF load_fails \/ raised \/ fault # "none"
                            THEN FALSE ELSE audio_filename)
     /\ IF load_fails \/ raised
        THEN /\ response' = OnException(CallSid)
             /\ UNCHANGED <<recordings_dir, procs>>
        ELSE /\ procs' = IF step.dispatch
                         THEN procs @@ (now :> NewSend("voice_webhook", CallSid,
                                                       call_data))
                         ELSE procs
             /\ recordings_dir' =
                  [recordings_dir EXCEPT ![CallSid] = Written(@, call_data, fault)]
             /\ response' = IF fault = "none"
                            THEN VoiceResponse(CallSid,
                                   Twiml(call_data.call_completed, step.message,
                                         audio_filename))
                            ELSE OnException(CallSid)

----------------------------------------------------------------------------
(* voice_webhook of attached_assets/main.py *)

\* Lines 221-231: the record has no sent_to_voxintel key.
main_NewCallData(CallSid, From, To, t) ==
  LET call_data == NewCallData(CallSid, From, To, t)
  IN [f \in DOMAIN call_data \ {"sent_to_voxintel"} |-> call_data[f]]

\* Lines 252-313: the speech branch; the completion block assigns
\* call_completed, end_time and status and initiates no dispatch.
main_SpeechStep(call_data, SpeechResult, sarah_response, t) ==
  LET cd1 == [call_data EXCEPT !.conversation = Append(@,
                [timestamp |-> t, speaker |-> "Customer",
                 message |-> <<SpeechResult>>, type |-> "customer_input"])]
      lead_info == Update(cd1.lead_info, sarah_response.lead_info)
      override == /\ "phone" \in DOMAIN lead_info /\ "name" \in DOMAIN lead_info
                  /\ ( \/ "business_type" \in DOMAIN lead_info
                       \/ "product_category" \in DOMAIN lead_info )
                  /\ ~sarah_response.should_end_call
      message == IF override THEN ClosingMessage(lead_info) ELSE sarah_response.message
      should_end_call == IF override THEN TRUE ELSE sarah_response.should_end_call
      next_action == IF override THEN "end_call" ELSE sarah_response.next_action
      cd2 == [cd1 EXCEPT !.lead_info = lead_info,
                         !.conversation = Append(@,
                [timestamp |-> t, speaker |-> "Sarah", message |-> message,
                 type |-> "ai_response",
                 lead_info_extracted |-> sarah_response.lead_info,
                 confidence |-> sarah_response.confidence,
                 next_action |-> next_action,
                 should_end_call |-> should_end_call])]
      cd3 == IF should_end_call \/ next_action = "end_call"
             THEN [cd2 EXCEPT !.call_completed = TRUE, !.end_time = t,
                              !.status = "completed"]
             ELSE cd2
  IN [call_data |-> cd3, message |-> message]

\* Lines 199-404, on the files of attached_assets/main.py.
main_voice_webhook(CallSidIn, From, To, CallStatus, SpeechResult, RecordingUrl, sarah_response, audio_filename, fault) ==
  LET CallSid == FormGet(CallSidIn)
      file == main.recordings_dir[CallSid]
      load_fails == file = Truncated
      loaded == IF file # NoFile
                THEN file
                ELSE main_NewCallData(CallSid, FormGet(From), FormGet(To), now)
      with_url == IF RecordingUrl # None
                  THEN [loaded EXCEPT !.recording_url = RecordingUrl]
                  ELSE loaded
      speech == SpeechResult \notin {None, ""}
      raised == speech /\ ~load_fails /\ EngineFails(sarah_response)
      step == IF speech
              THEN main_SpeechStep(with_url, SpeechResult, sarah_response, now)
              ELSE GreetingStep(with_url, now)
      call_data == BeforeSave(step.call_data, now)
  IN main' =
       IF load_fails \/ raised
       THEN [main EXCEPT !.response = OnException(CallSid)]
       ELSE [ recordings_dir |->
                [main.recordings_dir EXCEPT ![CallSid] = Written(@, call_data, fault)],
              response |->
                IF fault = "none"
                THEN VoiceResponse(CallSid,
                       Twiml(call_data.call_completed, step.message, audio_filename))
                ELSE OnException(CallSid) ]

----------------------------------------------------------------------------
(* handle_recording_completion, handle_recording_status *)

RecordingAck(CallSid) ==
  [handler |-> "handle_recording_completion", key |-> CallSid, twiml |-> <<>>,
   json |-> "success"]

\* json.load raises at line 475 and the server answers 500.
RecordingError(CallSid) ==
  [handler |-> "handle_recording_completion", key |-> CallSid, twiml |-> <<>>,
   json |-> "Internal Server Error"]

\* RecordingUpdate that leaves out the recording's URL and duration.
RecordingUpdateNoUrl(call_data, RecordingUrl, RecordingSid, RecordingDuration, t) ==
  [call_data EXCEPT
     !.recording_sid = RecordingSid,
     !.end_time = IF call_data.end_time = NoTime THEN t ELSE @,
     !.status = "completed",
     !.conversation_exchanges = Len(call_data.conversation),
     !.final_lead_info = call_data.lead_info]

\* Lines 477-484.
RecordingUpdate(call_data, RecordingUrl, RecordingSid, RecordingDuration, t) ==
  [call_data EXCEPT
     !.recording_url = RecordingUrl,
     !.recording_sid = RecordingSid,
     !.duration_seconds = RecordingDuration,
     !.end_time = IF call_data.end_time = NoTime THEN t ELSE @,
     !.status = "completed",
     !.conversation_exchanges = Len(call_data.conversation),
     !.final_lead_info = call_data.lead_info]

\* Lines 491-498, once send_call_to_voxintel has returned.
RecordingFinish(CallSid, call_data) ==
  /\ recordings_dir' = [recordings_dir EXCEPT ![CallSid] = call_data]
  /\ response' = RecordingAck(CallSid)

\* handle_recording_completion that creates the record when there is no file.
handle_recording_completion_creates(CallSid, RecordingUrl, RecordingDuration, RecordingSid, outcome) ==
  /\ now <= MaxEvents
  /\ now' = now + 1
  /\ request' = Request("handle_recording_completion", CallSid, None, NotCalled,
                        "none", [RecordingUrl |-> RecordingUrl,
                                 RecordingDuration |-> RecordingDuration,
                                 RecordingSid |-> RecordingSid], <<>>, FALSE)
  /\ IF Loads(CallSid) \/ ~Exists(CallSid)
     THEN LET call_data == RecordingUpdate(IF Exists(CallSid)
                                           THEN recordings_dir[CallSid]
                                           ELSE NewCallData(CallSid, "unknown",
                                                            "unknown", now),
                                           RecordingUrl,
                             RecordingSid, RecordingDuration, now)
          IN IF NotSent(call_data)
             THEN LET sent == [call_data EXCEPT !.sent_to_voxintel = TRUE]
                      p == Attempt(NewSend("handle_recording_completion",
                                           CallSid, sent), outcome)
                  IN /\ procs' = procs @@ (now :> p)
                     /\ IF p.pc = "returned"
                        THEN RecordingFinish(CallSid, sent)
                        ELSE UNCHANGED <<recordings_dir, response>>
             ELSE /\ RecordingFinish(CallSid, call_data)
                  /\ UNCHANGED procs
     ELSE /\ response' = IF Exists(CallSid) THEN RecordingError(CallSid)
                                            ELSE RecordingAck(CallSid)
          /\ UNCHANGED <<recordings_dir, procs>>

\* outcome is what the first POST yields if one is made.
handle_recording_completion(CallSid, RecordingUrl, RecordingDuration, RecordingSid, outcome) ==
  /\ now <= MaxEvents
  /\ now' = now + 1
  /\ request' = Request("handle_recording_completion", CallSid, None, NotCalled,
                        "none", [RecordingUrl |-> RecordingUrl,
                                 RecordingDuration |-> RecordingDuration,
                                 RecordingSid |-> RecordingSid], <<>>, FALSE)
  /\ IF Loads(CallSid)
     THEN LET call_data == RecordingUpdate(recordings_dir[CallSid], RecordingUrl,
                             RecordingSid, RecordingDuration, now)
          IN IF NotSent(call_data)
             THEN LET sent == [call_data EXCEPT !.sent_to_voxintel = TRUE]
                      p == Attempt(NewSend("handle_recording_completion",
                                           CallSid, sent), outcome)
                  IN /\ procs' = procs @@ (now :> p)
                     /\ IF p.pc = "returned"
                        THEN RecordingFinish(CallSid, sent)
                        ELSE UNCHANGED <<recordings_dir, response>>
             ELSE /\ RecordingFinish(CallSid, call_data)
                  /\ UNCHANGED procs
     ELSE /\ response' = IF Exists(CallSid) THEN RecordingError(CallSid)
                                            ELSE RecordingAck(CallSid)
          /\ UNCHANGED <<recordings_dir, procs>>

\* The handler wakes from asyncio.sleep inside send_call_to_voxintel.
recording_completion_resume(id, outcome) ==
  LET p == Attempt(procs[id], outcome)
  IN /\ procs[id].owner = "handle_recording_completion"
     /\ procs[id].pc = "sleeping"
     /\ procs' = [procs EXCEPT ![id] = p]
     /\ IF p.pc = "returned"
        THEN RecordingFinish(p.key, p.call_data)
        ELSE UNCHANGED <<recordings_dir, response>>
     /\ UNCHANGED <<now, request>>

\* The event loop runs the task created by voice_webhook: its first pass, or
\* a pass after asyncio.sleep.
send_call_to_voxintel(id, outcome) ==
  /\ procs[id].owner = "voice_webhook"
  /\ procs[id].pc \in {"created", "sleeping"}
  /\ procs' = [procs EXCEPT ![id] = Attempt(procs[id], outcome)]
  /\ UNCHANGED <<recordings_dir, now, request, response>>

\* handle_recording_status that marks the call's record completed.
handle_recording_status_completes(CallSid, RecordingStatus, ErrorCode) ==
  /\ now <= MaxEvents
  /\ now' = now + 1
  /\ request' = Request("handle_recording_status", CallSid, None, NotCalled,
                        "none", [RecordingStatus |-> RecordingStatus,
                                 ErrorCode |-> ErrorCode], <<>>, FALSE)
  /\ response' = [handler |-> "handle_recording_status", key |-> CallSid,
                  twiml |-> <<>>, json |-> "received"]
  /\ recordings_dir' = IF Loads(CallSid)
                       THEN [recordings_dir EXCEPT ![CallSid].status = "completed"]
                       ELSE recordings_dir
  /\ UNCHANGED procs

handle_recording_status(CallSid, RecordingStatus, ErrorCode) ==
  /\ now <= MaxEvents
  /\ now' = now + 1
  /\ request' = Request("handle_recording_status", CallSid, None, NotCalled,
                        "none", [RecordingStatus |-> RecordingStatus,
                                 ErrorCode |-> ErrorCode], <<>>, FALSE)
  /\ response' = [handler |-> "handle_recording_status", key |-> CallSid,
                  twiml |-> <<>>, json |-> "received"]
  /\ UNCHANGED <<recordings_dir, procs>>

----------------------------------------------------------------------------
(* get_call_recording *)

NotFound == [error |-> "Recording not found"]

\* json.load raises at line 140 and the server answers 500.
ServerError == [detail |-> "Internal Server Error"]

\* What get_call_recording returns when it finds the file in this state.
GetResult(call_sid, file) ==
  [call_sid |-> call_sid,
   body |-> IF file = NoFile THEN NotFound
            ELSE IF file = Truncated THEN ServerError
            ELSE file]

\* The worker thread reads while the loop thread runs no handler.
get_call_recording(call_sid) ==
  /\ reads' = GetResult(call_sid, recordings_dir[call_sid])
  /\ UNCHANGED <<recordings_dir, now, procs, request, response>>

\* The worker thread reads while the loop thread is in the handler step
\* HandlerStep that writes the file: before open(transcript_file, 'w'),
\* between the truncation and the end of json.dump, or after it.
get_call_recording_racing(call_sid, HandlerStep) ==
  /\ HandlerStep
  /\ recordings_dir'[call_sid] # recordings_dir[call_sid]
  /\ reads' \in {GetResult(call_sid, recordings_dir[call_sid]),
                 GetResult(call_sid, Truncated),
                 GetResult(call_sid, recordings_dir'[call_sid])}

----------------------------------------------------------------------------
(* Specifications *)

VoiceEvent(env) ==
  \E CallSidIn \in env.CallSids, From \in env.From, To \in env.To,
     CallStatus \in env.CallStatus, SpeechResult \in env.SpeechResult, RecordingUrl \in env.VoiceRecordingUrl,
     sarah_response \in env.sarah_response,
     audio_filename \in env.audio_filename, fault \in env.fault :
       voice_webhook(CallSidIn, From, To, CallStatus, SpeechResult, RecordingUrl,
                     sarah_response, audio_filename, fault)

RecordingEvent(env) ==
  \E CallSid \in env.CallSids \ {None}, RecordingUrl \in env.RecordingUrl,
     RecordingDuration \in env.RecordingDuration,
     RecordingSid \in env.RecordingSid, outcome \in env.outcome :
       handle_recording_completion(CallSid, RecordingUrl, RecordingDuration,
                                   RecordingSid, outcome)

RecordingStatusEvent(env) ==
  \E CallSid \in env.CallSids \ {None},
     RecordingStatus \in env.RecordingStatus, ErrorCode \in env.ErrorCode :
       handle_recording_status(CallSid, RecordingStatus, ErrorCode)

RecordingResume(env) ==
  \E id \in DOMAIN procs, outcome \in env.outcome :
    recording_completion_resume(id, outcome)

TaskRun(env) ==
  \E id \in DOMAIN procs, outcome \in env.outcome :
    send_call_to_voxintel(id, outcome)

\* One event loop: handlers overlap where the code awaits.
Step(env) ==
  \/ VoiceEvent(env) /\ UNCHANGED <<reads, main>>
  \/ RecordingEvent(env) /\ UNCHANGED <<reads, main>>
  \/ RecordingStatusEvent(env) /\ UNCHANGED <<reads, main>>
  \/ RecordingResume(env) /\ UNCHANGED <<reads, main>>
  \/ TaskRun(env) /\ UNCHANGED <<reads, main>>

Next == Step(Env)

Spec == Init /\ [][Next]_vars

\* No handler is suspended between its load and its save.
HandlersIdle ==
  \A id \in DOMAIN procs :
    procs[id].owner = "handle_recording_completion" => procs[id].pc = "returned"

\* The provider delivers an event only after the previous one was answered.
SeqNext ==
  \/ HandlersIdle /\ VoiceEvent(Env) /\ UNCHANGED <<reads, main>>
  \/ HandlersIdle /\ RecordingEvent(Env) /\ UNCHANGED <<reads, main>>
  \/ HandlersIdle /\ RecordingStatusEvent(Env) /\ UNCHANGED <<reads, main>>
  \/ RecordingResume(Env) /\ UNCHANGED <<reads, main>>
  \/ TaskRun(Env) /\ UNCHANGED <<reads, main>>

SeqSpec == Init /\ [][SeqNext]_vars

\* The behaviours in which every voice event carries speech and the engine
\* extracts every kind of delta.
LeadEnv ==
  [Env EXCEPT !.sarah_response = EngineOutcomes({NamePhone, Bakery, Mugs, NoName}),
              !.SpeechResult = {"I need mugs"},
              !.RecordingStatus = {"completed"},
              !.ErrorCode = {None}]

LeadNext == Step(LeadEnv)

LeadSpec == Init /\ [][LeadNext]_vars

\* The behaviours in which a POST can also fail with a transport error.
SendEnv ==
  [Env EXCEPT !.sarah_response = {SarahResponse(EmptyDict, FALSE, "continue"),
                                  SarahResponse(EmptyDict, TRUE, "end_call"),
                                  Raises},
              !.outcome = {"200", "500", "exception"}]

SendNext == Step(SendEnv)

SendSpec == Init /\ [][SendNext]_vars

\* The behaviours in which the engine returns a malformed result and the
\* save fails.
FaultEnv ==
  [Env EXCEPT !.sarah_response = {SarahResponse(EmptyDict, FALSE, "continue"),
                                  SarahResponse(EmptyDict, TRUE, "end_call"),
                                  Raises, NoMessage},
              !.audio_filename = BOOLEAN,
              !.fault = {"none", "open", "dump"}]

FaultNext == Step(FaultEnv)

FaultSpec == Init /\ [][FaultNext]_vars

\* The behaviours in which the provider leaves out From, To or CallStatus.
MalformedEnv ==
  [Env EXCEPT !.From = {"+15550001", None},
              !.To = {"+15559999", None},
              !.CallStatus = {"in-progress", None},
              !.sarah_response = {SarahResponse(EmptyDict, FALSE, "continue"),
                                  SarahResponse(EmptyDict, TRUE, "end_call"),
                                  Raises}]

MalformedNext == Step(MalformedEnv)

MalformedSpec == Init /\ [][MalformedNext]_vars

\* The behaviours in which the transcript of a call is queried.
ThreadEnv ==
  [Env EXCEPT !.sarah_response = {SarahResponse(EmptyDict, FALSE, "continue"),
                                  SarahResponse(EmptyDict, TRUE, "end_call")}]

Read(env) == \E call_sid \in env.CallSids : get_call_recording(call_sid)

ReadDuringVoice(env) ==
  \E call_sid \in env.CallSids :
    get_call_recording_racing(call_sid, VoiceEvent(env))

ReadDuringRecording(env) ==
  \E call_sid \in env.CallSids :
    get_call_recording_racing(call_sid, RecordingEvent(env))

ReadDuringResume(env) ==
  \E call_sid \in env.CallSids :
    get_call_recording_racing(call_sid, RecordingResume(env))

\* The event loop and one worker thread.
ThreadNext ==
  \/ Step(ThreadEnv)
  \/ Read(ThreadEnv) /\ UNCHANGED main
  \/ ReadDuringVoice(ThreadEnv) /\ UNCHANGED main
  \/ ReadDuringRecording(ThreadEnv) /\ UNCHANGED main
  \/ ReadDuringResume(ThreadEnv) /\ UNCHANGED main

ThreadSpec == Init /\ [][ThreadNext]_vars

\* Longest transcript a stored file starts with.
MaxTurns == 4

\* Timestamps of stored turns: 0 is a string datetime.fromisoformat rejects.
Stamps == {0, 1, 3}

\* A stored conversation of n turns whose first turn has the timestamp
\* first and whose last turn, if it is another one, has the timestamp last.
Transcript(n, first, last) ==
  [i \in 1..n |-> [timestamp |-> IF i = n /\ n > 1 THEN last ELSE first,
                   speaker |-> "Sarah", message |-> Greeting, type |-> "greeting"]]

StoredTranscripts ==
  {Transcript(n, first, last) : n \in 1..MaxTurns, first \in Stamps, last \in Stamps}

\* The behaviours that start with a transcript file of CA1 on disk, written
\* with any timestamps, as send_call_to_voxintel reads it at lines 22-42.
DurationInit ==
  /\ \E conversation \in StoredTranscripts :
       recordings_dir =
         [k \in Keys |->
            IF k = "CA1"
            THEN [NewCallData("CA1", "+15550001", "+15559999", 1)
                    EXCEPT !.conversation = conversation]
            ELSE NoFile]
  /\ now = 1
  /\ procs = [i \in {} |-> 0]
  /\ request = NoRequest
  /\ response = NoResponse
  /\ reads = NoRead
  /\ main = NoMain

DurationEnv ==
  [Env EXCEPT !.sarah_response = {SarahResponse(EmptyDict, TRUE, "end_call")},
              !.RecordingStatus = {"completed"},
              !.ErrorCode = {None}]

DurationNext == Step(DurationEnv)

DurationSpec == DurationInit /\ [][DurationNext]_vars

\* The behaviours in which speech synthesis yields an audio file or none.
MarkupEnv ==
  [Env EXCEPT !.sarah_response = {SarahResponse(EmptyDict, FALSE, "continue"),
                                  SarahResponse(EmptyDict, TRUE, "end_call"),
                                  Raises},
              !.audio_filename = BOOLEAN]

MarkupNext == Step(MarkupEnv)

MarkupSpec == Init /\ [][MarkupNext]_vars

\* The behaviours in which both versions of voice_webhook handle the same
\* voice events with the same engine answers and synthesis results.
EquivEnv ==
  [Env EXCEPT !.sarah_response = EngineOutcomes({NamePhone, Bakery}),
              !.audio_filename = BOOLEAN,
              !.outcome = {"200"}]

EquivVoiceEvent ==
  \E CallSidIn \in EquivEnv.CallSids, From \in EquivEnv.From, To \in EquivEnv.To,
     CallStatus \in EquivEnv.CallStatus, SpeechResult \in EquivEnv.SpeechResult,
     sarah_response \in EquivEnv.sarah_response,
     audio_filename \in EquivEnv.audio_filename :
       /\ voice_webhook(CallSidIn, From, To, CallStatus, SpeechResult, None,
                        sarah_response, audio_filename, "none")
       /\ main_voice_webhook(CallSidIn, From, To, CallStatus, SpeechResult, None,
                             sarah_response, audio_filename, "none")
       /\ UNCHANGED reads

EquivNext ==
  \/ EquivVoiceEvent
  \/ TaskRun(EquivEnv) /\ UNCHANGED <<reads, main>>

EquivSpec == Init /\ [][EquivNext]_vars

\* The behaviours with three calls: one that the provider identifies, and
\* two from different callers whose events carry no CallSid.
CrossCalls ==
  { [CallSid |-> "CA1", From |-> "+15550001"],
    [CallSid |-> None, From |-> "+15550002"],
    [CallSid |-> None, From |-> "+15550003"] }

CrossEnv ==
  [Env EXCEPT !.sarah_response = {SarahResponse(EmptyDict, FALSE, "continue"),
                                  SarahResponse(EmptyDict, TRUE, "end_call")},
              !.RecordingStatus = {"completed"},
              !.ErrorCode = {None}]

CrossVoiceEvent ==
  \E call \in CrossCalls, To \in CrossEnv.To, CallStatus \in CrossEnv.CallStatus,
     SpeechResult \in CrossEnv.SpeechResult,
     sarah_response \in CrossEnv.sarah_response :
       voice_webhook(call.CallSid, call.From, To, CallStatus, SpeechResult, None,
                     sarah_response, FALSE, "none")

CrossNext ==
  \/ CrossVoiceEvent /\ UNCHANGED <<reads, main>>
  \/ RecordingEvent(CrossEnv) /\ UNCHANGED <<reads, main>>
  \/ RecordingStatusEvent(CrossEnv) /\ UNCHANGED <<reads, main>>
  \/ RecordingResume(CrossEnv) /\ UNCHANGED <<reads, main>>
  \/ TaskRun(CrossEnv) /\ UNCHANGED <<reads, main>>

CrossSpec == Init /\ [][CrossNext]_vars

----------------------------------------------------------------------------
(* Properties *)

Record(k) == recordings_dir[k]

\* Invocations of send_call_to_voxintel initiated for a call id.
Started(k) == Cardinality({id \in DOMAIN procs : procs[id].key = k})

Sent(k) == Exists(k) /\ Record(k).sent_to_voxintel

Completed(k) == Exists(k) /\ Record(k).status = "completed"

\* name and phone are present, and business_type or product_category is.
Qualified(lead_info) ==
  /\ {"name", "phone"} \subseteq DOMAIN lead_info
  /\ {"business_type", "product_category"} \cap DOMAIN lead_info # {}

Contains(message, text) == \E i \in 1..Len(message) : message[i] = text

\* The step taken is voice_webhook handling an event.
VoiceHandled == now' = now + 1 /\ request'.handler = "voice_webhook"

\* C1: when events are handled one at a time, at most one invocation of
\* send_call_to_voxintel is ever initiated per call id, and the persisted
\* sent_to_voxintel flag, once true, stays true.
C1_OneDispatchWhenSequential ==
  [][\A k \in Keys : /\ Started(k)' <= 1
                     /\ Sent(k) => Sent(k)']_vars

\* A completed, notified session that a recording-completion event and a later
\* voice event were still handled for.
C1_Witness ==
  \E id \in DOMAIN procs :
    LET k == procs[id].key
    IN /\ Sent(k) /\ Completed(k) /\ Started(k) = 1
       /\ Record(k).recording_sid # None
       /\ Record(k).last_updated > id

\* C2: under every interleaving of overlapping handler invocations for a call
\* id, at most one invocation of send_call_to_voxintel is initiated for it.
C2_OneDispatchWhenOverlapping == \A k \in Keys : Started(k) <= 1

\* C3: a persisted record with status completed has had exactly one
\* invocation of send_call_to_voxintel initiated for it.
C3_CompletedDispatchedExactlyOnce ==
  \A k \in Keys : Completed(k) => Started(k) = 1

\* C4: once the persisted status is completed it is never again in_progress.
C4_CompletedIsFinal ==
  [][\A k \in Keys : Completed(k) => Completed(k)']_vars

\* A completed session for which a later speech step did not end the call.
C4_Witness ==
  \E k \in Keys :
    /\ Completed(k)
    /\ Record(k).conversation # <<>>
    /\ LET turn == Last(Record(k).conversation)
       IN /\ turn.type = "ai_response"
          /\ ~turn.should_end_call
          /\ turn.next_action = "continue"
          /\ Record(k).end_time # NoTime
          /\ turn.timestamp > Record(k).end_time

\* C5: when events are handled one at a time, the persisted transcript only
\* grows at its end: no turn is dropped, moved or changed.
C5_TranscriptAppendOnly ==
  [][\A k \in Keys :
       Exists(k) =>
         /\ Exists(k)'
         /\ Len(recordings_dir'[k].conversation) >= Len(Record(k).conversation)
         /\ \A i \in 1..Len(Record(k).conversation) :
              recordings_dir'[k].conversation[i] = Record(k).conversation[i]]_vars

\* A transcript that grew after a recording-completion event was handled.
C5_Witness ==
  \E k \in Keys :
    /\ Exists(k)
    /\ Record(k).conversation_exchanges >= 1
    /\ Len(Record(k).conversation) > Record(k).conversation_exchanges

\* C6: no update of a session record is lost when load-modify-save cycles
\* overlap: turns, lead-info fields, the completion and the notified flag
\* that were persisted stay persisted.
C6_NoLostUpdate ==
  [][\A k \in Keys :
       Exists(k) =>
         /\ Exists(k)'
         /\ Len(recordings_dir'[k].conversation) >= Len(Record(k).conversation)
         /\ DOMAIN Record(k).lead_info \subseteq DOMAIN recordings_dir'[k].lead_info
         /\ Record(k).call_completed => recordings_dir'[k].call_completed
         /\ Record(k).sent_to_voxintel => recordings_dir'[k].sent_to_voxintel]_vars

\* C7: a voice step never replaces a non-empty lead-info value by an empty
\* one, and never removes a field.
C7_MergeKeepsNonEmpty ==
  [][VoiceHandled =>
       \A k \in Keys :
         Exists(k) =>
           \A f \in DOMAIN Record(k).lead_info :
             /\ f \in DOMAIN recordings_dir'[k].lead_info
             /\ Record(k).lead_info[f] # "" => recordings_dir'[k].lead_info[f] # ""]_vars

\* C8: a speech step whose merged lead info has name, phone and
\* business_type or product_category, and whose engine answer has
\* should_end_call false, appends a system turn with should_end_call true,
\* next_action end_call and the closing text with the captured name and
\* business type in place of the engine's reply.
C8_TerminationOverride ==
  [][\A k \in Keys :
       ( /\ VoiceHandled
         /\ request'.key = k
         /\ request'.SpeechResult # None
         /\ ~request'.sarah_response.raises
         /\ ~request'.sarah_response.should_end_call
         /\ Qualified(recordings_dir'[k].lead_info) )
       => LET lead_info == recordings_dir'[k].lead_info
              turn == Last(recordings_dir'[k].conversation)
          IN /\ turn.type = "ai_response"
             /\ turn.should_end_call
             /\ turn.next_action = "end_call"
             /\ turn.message # request'.sarah_response.message
             /\ turn.message[1] = "Perfect! I have your information, "
             /\ Contains(turn.message, lead_info["name"])
             /\ "business_type" \in DOMAIN lead_info =>
                  Contains(turn.message, lead_info["business_type"])]_vars

\* Mary's session of the specification: name and phone are known, the engine
\* extracts the bakery and asks to continue, and the closing text is appended.
C8_Witness ==
  /\ request.handler = "voice_webhook"
  /\ request.SpeechResult # None
  /\ request.sarah_response = SarahResponse(Bakery, FALSE, "continue")
  /\ Exists(request.key)
  /\ Record(request.key).lead_info = NamePhone @@ Bakery
  /\ Len(Record(request.key).conversation) = 4
  /\ Last(Record(request.key).conversation).message
       = ClosingMessage(NamePhone @@ Bakery)

\* C9: a persisted record whose lead info has name, phone and business_type
\* or product_category is completed.
C9_QualifiedIsCompleted ==
  \A k \in Keys :
    (Exists(k) /\ Qualified(Record(k).lead_info))
      => Record(k).call_completed /\ Record(k).status = "completed"

\* A session qualified by its product category alone, which the engine
\* wanted to continue.
C9_Witness ==
  \E k \in Keys :
    /\ Exists(k)
    /\ Qualified(Record(k).lead_info)
    /\ "product_category" \in DOMAIN Record(k).lead_info
    /\ "business_type" \notin DOMAIN Record(k).lead_info
    /\ Record(k).call_completed
    /\ Last(Record(k).conversation).message = ClosingMessage(Record(k).lead_info)

\* C10: an invocation of the dispatcher makes at most 3 attempts, none after
\* an attempt that returned 200, and reports success exactly when its last
\* attempt returned 200.
C10_AtMostThreeAttempts ==
  \A id \in DOMAIN procs :
    LET p == procs[id]
        n == Len(p.outcomes)
    IN /\ n <= 3
       /\ \A i \in 1..(n - 1) : p.outcomes[i] # "200"
       /\ (n >= 1 /\ p.outcomes[n] = "200") => p.pc = "returned" /\ p.result = "True"
       /\ n = 3 => p.pc = "returned"
       /\ p.pc = "returned" => n >= 1 /\ (p.result = "True" <=> p.outcomes[n] = "200")
       /\ p.pc # "returned" => p.result = "pending"

\* Two failures of both kinds, then success on the third attempt.
C10_Witness ==
  \E id \in DOMAIN procs :
    /\ procs[id].outcomes = <<"500", "exception", "200">>
    /\ procs[id].pc = "returned"
    /\ procs[id].result = "True"

\* Every attempt the invocation has made failed.
AllFailed(p) == \A i \in 1..Len(p.outcomes) : p.outcomes[i] # "200"

\* The invocation made 3 attempts and returned False.
GaveUp(p) == Len(p.outcomes) = MaxAttempts /\ AllFailed(p) /\ p.pc = "returned"

\* C11: an invocation of the dispatcher whose attempts all fail sleeps after
\* the first and the second attempt and returns False right after the third;
\* an attempt other than the first is made on waking from that sleep; and
\* once an invocation for a call id has returned False, the persisted
\* sent_to_voxintel flag is true and stays true and no step initiates another
\* invocation for that call id.
C11_FailureIsFinal ==
  [][/\ \A id \in DOMAIN procs' :
          LET q == procs'[id]
              n == Len(q.outcomes)
          IN AllFailed(q) =>
               /\ n \in {1, 2} => q.pc = "sleeping" /\ q.result = "pending"
               /\ n >= MaxAttempts => n = MaxAttempts /\ q.pc = "returned" /\ q.result = "False"
     /\ \A id \in DOMAIN procs :
          (Len(procs'[id].outcomes) > Len(procs[id].outcomes) /\ procs[id].outcomes # <<>>)
            => procs[id].pc = "sleeping"
     /\ \A id \in DOMAIN procs :
          GaveUp(procs[id]) =>
            LET k == procs[id].key
            IN /\ Sent(k) /\ Sent(k)'
               /\ Started(k)' = Started(k)]_vars

\* A dispatch that failed three times in both ways, after which a further
\* speech step ended the call again without a new invocation.
C11_Witness ==
  \E id \in DOMAIN procs :
    LET k == procs[id].key
    IN /\ GaveUp(procs[id])
       /\ procs[id].outcomes = <<"500", "exception", "500">>
       /\ procs[id].result = "False"
       /\ Started(k) = 1
       /\ Sent(k)
       /\ Last(Record(k).conversation).type = "ai_response"
       /\ Last(Record(k).conversation).should_end_call
       /\ Last(Record(k).conversation).timestamp > id

\* The markup waits for speech after its message.
Continuing(twiml) == Len(twiml) >= 2 /\ twiml[2].verb = "Gather"

\* C12: a voice event without speech for a call id that has no file creates
\* the record with status in_progress and a conversation of exactly one
\* greeting turn, calls no engine, initiates no dispatch, and is answered
\* with markup that plays or says the greeting and then gathers speech.
C12_FirstContact ==
  [][\A k \in Keys :
       ( /\ VoiceHandled
         /\ request'.key = k
         /\ request'.SpeechResult = None
         /\ ~Exists(k) )
       => /\ Exists(k)'
          /\ recordings_dir'[k].status = "in_progress"
          /\ ~recordings_dir'[k].call_completed
          /\ Len(recordings_dir'[k].conversation) = 1
          /\ recordings_dir'[k].conversation[1].type = "greeting"
          /\ recordings_dir'[k].conversation[1].message = Greeting
          /\ request'.sarah_response = NotCalled
          /\ procs' = procs
          /\ response'.handler = "voice_webhook"
          /\ response'.key = k
          /\ response'.twiml[1] \in {Say(Greeting), Play(Greeting)}
          /\ Continuing(response'.twiml)]_vars

\* The greeting of a new call was just answered with a played audio file.
C12_Witness ==
  /\ request.handler = "voice_webhook"
  /\ request.SpeechResult = None
  /\ Exists(request.key)
  /\ Record(request.key).start_time = Record(request.key).last_updated
  /\ Len(Record(request.key).conversation) = 1
  /\ response.twiml[1] = Play(Greeting)
  /\ response.twiml[2] = Gather("5")
  /\ procs = << >>

\* The markup is a sequence of verbs that starts with the message and ends
\* with the hang-up.
WellFormed(twiml) ==
  /\ Len(twiml) >= 2
  /\ twiml[1].verb \in {"Say", "Play"}
  /\ twiml[Len(twiml)].verb = "Hangup"

\* C13: voice_webhook answers every event with well-formed markup, also when
\* speech synthesis yields no file, and with the fixed emergency markup when
\* the load of the file, the engine call, the engine's result or the save
\* fails; it never lets the exception escape.
C13_AlwaysMarkup ==
  [][VoiceHandled =>
       /\ response'.handler = "voice_webhook"
       /\ response'.key = request'.key
       /\ response'.json = None
       /\ WellFormed(response'.twiml)
       /\ ( \/ recordings_dir[request'.key] = Truncated
            \/ request'.sarah_response \in {Raises, NoMessage}
            \/ request'.fault # "none" )
          => response'.twiml = emergency_twiml]_vars

\* A speech event for a call whose file does not load is answered with the
\* emergency markup without the engine being called.
C13_Witness ==
  /\ request.handler = "voice_webhook"
  /\ request.SpeechResult # None
  /\ request.sarah_response = NotCalled
  /\ request.fault = "none"
  /\ recordings_dir[request.key] = Truncated
  /\ response = VoiceResponse(request.key, emergency_twiml)

\* C14: when the engine call of a speech step raises, the markup returned
\* offers a further gather after its message instead of hanging up.
C14_EngineFailureKeepsCallAlive ==
  [][(VoiceHandled /\ request'.sarah_response.raises)
       => /\ WellFormed(response'.twiml)
          /\ Continuing(response'.twiml)]_vars

\* C15: after voice_webhook has handled an event the file of the call holds
\* the record as of that event, with the turn or turns appended for it: the
\* greeting, or the customer's turn of a speech event.
C15_EveryVoiceEventPersisted ==
  [][\A k \in Keys :
       (VoiceHandled /\ request'.key = k)
       => /\ Exists(k)'
          /\ recordings_dir'[k].last_updated = now
          /\ \E i \in 1..Len(recordings_dir'[k].conversation) :
               LET turn == recordings_dir'[k].conversation[i]
               IN /\ turn.timestamp = now
                  /\ IF request'.SpeechResult = None
                     THEN turn.type = "greeting"
                     ELSE /\ turn.type = "customer_input"
                          /\ turn.message = <<request'.SpeechResult>>]_vars

\* C16: once the file of a call holds an end_time no step changes it, and a
\* record with status in_progress holds none.
C16_EndTimeSetOnce ==
  [][\A k \in Keys :
       /\ (Exists(k) /\ Record(k).end_time # NoTime)
            => recordings_dir'[k].end_time = Record(k).end_time
       /\ (Exists(k)' /\ recordings_dir'[k].status = "in_progress")
            => recordings_dir'[k].end_time = NoTime]_vars

\* The event lacks From, To or CallStatus.
Missing(form) == form.From = None \/ form.To = None \/ form.CallStatus = None

\* C17: a voice event without From, To or CallStatus, for which the engine
\* does not fail, creates the record with "unknown" for the absent number, or
\* updates the existing record, appends the greeting turn or the customer's
\* and the system's turn, and is answered with one of the regular markup
\* shapes carrying the last turn's message, not with the emergency markup.
C17_MalformedEventHandled ==
  [][\A k \in Keys :
       ( /\ VoiceHandled
         /\ request'.key = k
         /\ Missing(request'.form)
         /\ ~request'.sarah_response.raises )
       => LET form == request'.form
              before == IF Exists(k) THEN Len(Record(k).conversation) ELSE 0
              after == recordings_dir'[k]
              message == Last(after.conversation).message
          IN /\ Exists(k)'
             /\ after.from_number = IF Exists(k) THEN Record(k).from_number
                                    ELSE IF form.From = None THEN "unknown"
                                    ELSE form.From
             /\ after.to_number = IF Exists(k) THEN Record(k).to_number
                                  ELSE IF form.To = None THEN "unknown"
                                  ELSE form.To
             /\ Len(after.conversation)
                  = before + IF request'.SpeechResult = None THEN 1 ELSE 2
             /\ after.last_updated = now
             /\ response'.twiml # emergency_twiml
             /\ WellFormed(response'.twiml)
             /\ response'.twiml[1] \in {Say(message), Play(message)}
             /\ IF after.call_completed
                THEN Len(response'.twiml) = 2
                ELSE Continuing(response'.twiml)]_vars

\* A first speech event without From, To and CallStatus created the record
\* and was answered with the engine's reply and a gather.
C17_Witness ==
  /\ request.handler = "voice_webhook"
  /\ request.form = [From |-> None, To |-> None, CallStatus |-> None]
  /\ request.SpeechResult # None
  /\ Exists(request.key)
  /\ Record(request.key).from_number = "unknown"
  /\ Record(request.key).to_number = "unknown"
  /\ Len(Record(request.key).conversation) = 2
  /\ response.twiml[1] = Say(EngineReply)
  /\ Continuing(response.twiml)

\* C18: no load observes a truncated file: get_call_recording returns the
\* record as it was before a save or as it is after it, and no handler ever
\* finds a file that does not load.
C18_SaveAtomicForReaders ==
  /\ reads.body # ServerError
  /\ \A k \in Keys : recordings_dir[k] # Truncated
  /\ response.json # "Internal Server Error"

\* C19: in the step in which a handler initiates a dispatch, the handler
\* returns its response and has written the record with sent_to_voxintel
\* true, and the dispatcher has made no attempt yet; every attempt is made
\* in a later step, which is not the step of a handler.
C19_DispatchDetached ==
  [][/\ \A id \in (DOMAIN procs') \ (DOMAIN procs) :
          /\ procs'[id].outcomes = <<>>
          /\ response'.handler = request'.handler
          /\ response'.key = procs'[id].key
          /\ recordings_dir'[procs'[id].key] = procs'[id].call_data
     /\ \A id \in DOMAIN procs :
          Len(procs'[id].outcomes) > Len(procs[id].outcomes)
            => response' = response /\ recordings_dir' = recordings_dir]_vars

\* The step taken is handle_recording_completion starting on an event.
RecordingHandled ==
  now' = now + 1 /\ request'.handler = "handle_recording_completion"

\* handle_recording_completion returns in the step taken: at once, or on
\* the return of the dispatcher it awaited.
RecordingReturns(k) ==
  \/ /\ RecordingHandled
     /\ request'.key = k
     /\ now \in DOMAIN procs' => procs'[now].pc = "returned"
  \/ \E id \in DOMAIN procs :
       /\ procs[id].owner = "handle_recording_completion"
       /\ procs[id].key = k
       /\ procs[id].pc = "sleeping"
       /\ procs'[id].pc = "returned"

\* C20: when events are handled one at a time, a recording-completion event
\* for a call that has a file initiates one dispatch if the file's
\* sent_to_voxintel is false and none if it is true, and when the handler
\* returns the file holds the event's RecordingUrl and RecordingDuration and
\* sent_to_voxintel true, and the answer is the JSON acknowledgement.
C20_RecordingCompletion ==
  [][\A k \in Keys :
       /\ (RecordingHandled /\ request'.key = k /\ Exists(k))
            => IF Record(k).sent_to_voxintel
               THEN procs' = procs
               ELSE /\ now \notin DOMAIN procs
                    /\ DOMAIN procs' = DOMAIN procs \cup {now}
                    /\ procs'[now].key = k
                    /\ procs'[now].outcomes # <<>>
                    /\ \A id \in DOMAIN procs : procs'[id] = procs[id]
       /\ (RecordingReturns(k) /\ Exists(k))
            => /\ recordings_dir'[k].recording_url = request'.form.RecordingUrl
               /\ recordings_dir'[k].duration_seconds = request'.form.RecordingDuration
               /\ recordings_dir'[k].sent_to_voxintel
               /\ response'.handler = "handle_recording_completion"
               /\ response'.key = k
               /\ response'.json = "success"
               /\ response'.twiml = <<>>]_vars

\* A recording-completion event dispatched, and a second one for the same
\* call was acknowledged without a dispatch.
C20_Witness ==
  \E id \in DOMAIN procs :
    LET k == procs[id].key
    IN /\ procs[id].owner = "handle_recording_completion"
       /\ procs[id].pc = "returned"
       /\ Started(k) = 1
       /\ request.handler = "handle_recording_completion"
       /\ request.key = k
       /\ id < now - 1
       /\ response.json = "success"
       /\ Record(k).recording_url = request.form.RecordingUrl
       /\ Record(k).duration_seconds = request.form.RecordingDuration
       /\ Sent(k)

\* The step taken is handle_recording_status handling an event.
StatusHandled == now' = now + 1 /\ request'.handler = "handle_recording_status"

\* C21: a recording-status event, whatever its RecordingStatus and with or
\* without ErrorCode, changes no file, creates none, initiates no dispatch
\* and advances none, and is answered with the JSON acknowledgement.
C21_RecordingStatusFrame ==
  [][StatusHandled =>
       /\ recordings_dir' = recordings_dir
       /\ procs' = procs
       /\ response'.handler = "handle_recording_status"
       /\ response'.key = request'.key
       /\ response'.json = "received"
       /\ response'.twiml = <<>>]_vars

\* A failed recording with an error code was reported for a call that has
\* a file and a dispatcher invocation between two attempts.
C21_Witness ==
  /\ request.handler = "handle_recording_status"
  /\ request.form = [RecordingStatus |-> "failed", ErrorCode |-> "31000"]
  /\ response.json = "received"
  /\ Exists(request.key)
  /\ \E id \in DOMAIN procs :
       procs[id].key = request.key /\ procs[id].pc = "sleeping"

\* C22: the duration of a payload built from a conversation of n >= 1 turns
\* is the difference of the last and the first turn's timestamps when both
\* parse and 30 * n when one of them does not, and it is an integer.
C22_PayloadDuration ==
  \A id \in DOMAIN procs :
    procs[id].payload # NoPayload =>
      LET conversation == procs[id].call_data.conversation
          n == Len(conversation)
          first == conversation[1].timestamp
          last == conversation[n].timestamp
      IN n >= 1 =>
           /\ procs[id].payload.duration \in Int
           /\ procs[id].payload.duration
                = IF first >= 1 /\ last >= 1 THEN last - first ELSE 30 * n

\* voice_webhook handled the event of the step taken without an exception:
\* the file loaded or was not there, the engine call returned a message, the
\* save succeeded.
VoiceSucceeded ==
  /\ VoiceHandled
  /\ recordings_dir[request'.key] # Truncated
  /\ request'.calls = <<>> \/ ~EngineFails(request'.sarah_response)
  /\ request'.fault = "none"

\* The markup plays or says one message and hangs up, with no gather.
Terminal(twiml) ==
  /\ Len(twiml) = 2
  /\ twiml[1].verb \in {"Say", "Play"}
  /\ twiml[2].verb = "Hangup"

\* The markup offers a gather before any hang-up.
GathersFirst(twiml) ==
  \E i \in 1..Len(twiml) :
    /\ twiml[i].verb = "Gather"
    /\ \A j \in 1..(i - 1) : twiml[j].verb # "Hangup"

\* C23: the markup of a voice step that did not fail is terminal if and only
\* if the stored record's status is completed after the step, also for an
\* event on a record that was completed before, and it offers a gather
\* before any hang-up when the status is not completed.
C23_TerminalIffCompleted ==
  [][\A k \in Keys :
       (VoiceSucceeded /\ request'.key = k) =>
         /\ Terminal(response'.twiml) <=> Completed(k)'
         /\ ~Completed(k)' => GathersFirst(response'.twiml)]_vars

Verbs(twiml) == [i \in 1..Len(twiml) |-> twiml[i].verb]

\* C24: the markup that continues the call has the same verbs whether the
\* message is played or said: the message, a gather, the re-prompt, a second
\* gather, the goodbye and the hang-up, the message being played when there
\* is an audio file and said when there is none.
C24_SameVerbStructure ==
  [][(VoiceSucceeded /\ Continuing(response'.twiml)) =>
       /\ Verbs(response'.twiml)
            = << IF request'.audio_filename THEN "Play" ELSE "Say",
                 "Gather", "Say", "Gather", "Say", "Hangup" >>
       /\ response'.twiml[3] = Say(Reprompt)
       /\ response'.twiml[5] = Say(Goodbye)]_vars

\* The record voice_webhook writes for the event of the step taken, computed
\* from the file and the event alone.
RecordOf(k) ==
  LET loaded == IF Exists(k)
                THEN recordings_dir[k]
                ELSE NewCallData(k, FormGet(request'.form.From),
                                 FormGet(request'.form.To), now)
      step == IF request'.SpeechResult = None
              THEN GreetingStep(loaded, now)
              ELSE SpeechStep(loaded, request'.SpeechResult,
                              request'.sarah_response, now)
  IN BeforeSave(step.call_data, now)

\* C25: when speech synthesis yields no audio file the markup says the
\* step's message and has no play verb; a play verb appears only as the
\* first verb, for the step's message, when synthesis yielded a file; and
\* with or without a file the record written and the choice between
\* continuing and ending the call are those the file and the event give.
C25_SynthesisFallback ==
  [][\A k \in Keys :
       (VoiceHandled /\ request'.key = k) =>
         /\ \A i \in 1..Len(response'.twiml) :
              response'.twiml[i].verb = "Play"
                => /\ request'.audio_filename
                   /\ i = 1
                   /\ response'.twiml[1]
                        = Play(Last(recordings_dir'[k].conversation).message)
         /\ (VoiceSucceeded /\ ~request'.audio_filename)
              => response'.twiml[1]
                   = Say(Last(recordings_dir'[k].conversation).message)
         /\ VoiceSucceeded
              => /\ recordings_dir'[k] = RecordOf(k)
                 /\ Continuing(response'.twiml)
                      <=> ~recordings_dir'[k].call_completed]_vars

\* Synthesis yielded no file for the closing message of a call: it is said,
\* the call is hung up and the record is completed.
C25_Witness ==
  /\ request.handler = "voice_webhook"
  /\ request.SpeechResult # None
  /\ ~request.audio_filename
  /\ request.calls # <<>>
  /\ Exists(request.key)
  /\ Record(request.key).call_completed
  /\ response.twiml = <<Say(Last(Record(request.key).conversation).message), Hangup>>

\* C26: a voice step that succeeds sets status completed (and call_completed)
\* when it is a speech step whose system turn, written after the override,
\* has should_end_call true or next_action end_call, and leaves status and
\* call_completed as they were otherwise, a greeting step in particular; a
\* step that fails changes no file.  When the engine answers next_action
\* end_call with should_end_call false and the lead info lacks name, phone
\* or both business_type and product_category, the record is completed and
\* the engine's message is the system turn's and the markup's.
C26_CompletedIffEnds ==
  [][\A k \in Keys :
       (VoiceHandled /\ request'.key = k) =>
         IF VoiceSucceeded
         THEN LET before == IF Exists(k) THEN Record(k)
                            ELSE NewCallData(k, "unknown", "unknown", now)
                  after == recordings_dir'[k]
                  turn == Last(after.conversation)
                  ends == /\ request'.SpeechResult # None
                          /\ turn.should_end_call \/ turn.next_action = "end_call"
              IN /\ ends => after.status = "completed" /\ after.call_completed
                 /\ ~ends => /\ after.status = before.status
                             /\ after.call_completed = before.call_completed
                 /\ ( /\ request'.SpeechResult # None
                      /\ ~request'.sarah_response.should_end_call
                      /\ request'.sarah_response.next_action = "end_call"
                      /\ ~Qualified(after.lead_info) )
                    => /\ after.status = "completed"
                       /\ turn.message = request'.sarah_response.message
                       /\ response'.twiml
                            = <<Say(request'.sarah_response.message), Hangup>>
         ELSE recordings_dir'[k] = recordings_dir[k]]_vars

\* The engine asked to end the call through next_action alone before the
\* phone number was known: the record is completed with the engine's reply.
C26_Witness ==
  /\ request.handler = "voice_webhook"
  /\ request.calls # <<>>
  /\ request.sarah_response = SarahResponse(Bakery, FALSE, "end_call")
  /\ Exists(request.key)
  /\ Record(request.key).lead_info = Bakery
  /\ Record(request.key).status = "completed"
  /\ Last(Record(request.key).conversation).message = EngineReply
  /\ ~Last(Record(request.key).conversation).should_end_call
  /\ response.twiml = <<Say(EngineReply), Hangup>>

C28_OverrideOnlyWithoutTermination ==
  [][\A k \in Keys :
       (VoiceSucceeded /\ request'.key = k /\ request'.SpeechResult # None) =>
         LET sarah_response == request'.sarah_response
             turn == Last(recordings_dir'[k].conversation)
         IN ( \/ sarah_response.should_end_call
              \/ sarah_response.next_action = "end_call"
              \/ ~Qualified(recordings_dir'[k].lead_info) )
            => /\ turn.message = sarah_response.message
               /\ turn.should_end_call = sarah_response.should_end_call
               /\ turn.next_action = sarah_response.next_action
               /\ response'.twiml[1] \in {Say(sarah_response.message),
                                          Play(sarah_response.message)}]_vars

\* A dispatcher invocation of call id k is initiated or advanced in the step.
DispatchStep(k) ==
  \E id \in DOMAIN procs' :
    /\ procs'[id].key = k
    /\ id \in DOMAIN procs => procs'[id] # procs[id]

\* C29: a step changes the file of a call id only when it handles an event
\* of that call id or advances a dispatcher invocation of it, a handler
\* initiates invocations for the call id of its event only, and the file a
\* voice event is written to is the file of the event's caller, also when
\* the event has no CallSid.
C29_CallsIndependent ==
  [][\A k \in Keys :
       /\ recordings_dir'[k] # recordings_dir[k]
            => \/ now' = now + 1 /\ request'.key = k
               \/ now' = now /\ DispatchStep(k)
       /\ (now' = now + 1 /\ DispatchStep(k)) => request'.key = k
       /\ (VoiceSucceeded /\ request'.key = k)
            => recordings_dir'[k].from_number = FormGet(request'.form.From)]_vars

\* C30: while a dispatcher invocation of a call id is running or has
\* returned, the file of the call id holds sent_to_voxintel true.
C30_NotifiedBeforeDispatch ==
  \A id \in DOMAIN procs :
    procs[id].pc \in {"sleeping", "returned"}
      => /\ Loads(procs[id].key)
         /\ Record(procs[id].key).sent_to_voxintel

\* C31: in every file that loads, call_completed is true if and only if
\* status is completed.
C31_CompletionFieldsAgree ==
  \A k \in Keys :
    Loads(k) => (Record(k).call_completed <=> Record(k).status = "completed")

\* C32: the status of a payload is completed when the record the dispatcher
\* was called with has status completed, whichever handler called it, and
\* missed only when that record's status is not completed.
C32_PayloadStatusFollowsRecord ==
  \A id \in DOMAIN procs :
    procs[id].payload # NoPayload =>
      /\ procs[id].payload.status \in {"completed", "missed"}
      /\ procs[id].payload.status = "completed"
           <=> procs[id].call_data.status = "completed"

\* C33: a recording-completion event for a call id that has no file creates
\* no file, initiates no dispatch, changes no file and is answered with the
\* JSON acknowledgement; a file comes into existence only in a step in
\* which voice_webhook handles an event of its call id, and a file that
\* exists is never removed.
C33_RecordingWithoutSession ==
  [][\A k \in Keys :
       /\ (RecordingHandled /\ request'.key = k /\ ~Exists(k))
            => /\ recordings_dir' = recordings_dir
               /\ procs' = procs
               /\ response'.handler = "handle_recording_completion"
               /\ response'.key = k
               /\ response'.json = "success"
       /\ (~Exists(k) /\ Exists(k)') => (VoiceHandled /\ request'.key = k)
       /\ Exists(k) => Exists(k)']_vars

\* A recording-completion event for CA1, which has no file, was acknowledged
\* while the file of another call id exists.
C33_Witness ==
  /\ request.handler = "handle_recording_completion"
  /\ request.key = "CA1"
  /\ ~Exists("CA1")
  /\ Exists("unknown")
  /\ response.handler = "handle_recording_completion"
  /\ response.json = "success"

\* C34: after the same voice events with the same engine answers, the file
\* voice_webhook of attached_assets/main.py has written for a call id and
\* the one voice_webhook of main_fixed.py has written hold the same
\* conversation, lead_info, final_lead_info, status and call_completed, and
\* end_time is set in both or in neither; the only key they differ in is
\* sent_to_voxintel; and the markup both returned last has the same verbs.
C34_VersionsEquivalent ==
  /\ \A k \in Keys :
       LET old == main.recordings_dir[k]
           new == recordings_dir[k]
       IN /\ old = NoFile <=> new = NoFile
          /\ new # NoFile =>
               /\ DOMAIN old = DOMAIN new \ {"sent_to_voxintel"}
               /\ \A f \in {"conversation", "lead_info", "final_lead_info",
                            "status", "call_completed"} : old[f] = new[f]
               /\ old.end_time = NoTime <=> new.end_time = NoTime
               /\ \A f \in DOMAIN old : old[f] = new[f]
  /\ Verbs(main.response.twiml) = Verbs(response.twiml)
  /\ main.response = response

\* Both versions completed the call with the closing text after the bakery
\* was named; main_fixed.py alone marked the record as sent and initiated a
\* dispatch.
C34_Witness ==
  /\ main.recordings_dir["CA1"] # NoFile
  /\ main.recordings_dir["CA1"].status = "completed"
  /\ main.recordings_dir["CA1"].final_lead_info = NamePhone @@ Bakery
  /\ Terminal(main.response.twiml)
  /\ Record("CA1").sent_to_voxintel
  /\ "sent_to_voxintel" \notin DOMAIN main.recordings_dir["CA1"]
  /\ Started("CA1") = 1

====
